---------------------------- MODULE Spec2Model ----------------------------
(***************************************************************************)
(* Model of scripts/db-backup-restore.py: the backup directory (Artifact   *)
(* Store), the remote D1 databases behind the wrangler/HTTP gateway, and    *)
(* the engines and CLI commands that act on them.                           *)
(*                                                                          *)
(* Every CLI command is one action; the engine methods it calls             *)
(* (create_backup, restore_database, verify_backup, cleanup_old_backups)    *)
(* are operators that compute the new backup directory, temporary files,    *)
(* database and the sequence of gateway commands issued.  The outcome of    *)
(* every gateway command and of every fallible file operation is an input   *)
(* of the action.                                                           *)
(*                                                                          *)
(* Text is modelled as a sequence of chunks (Tokens); the 1000 characters   *)
(* verify_backup reads are ReadLimit chunks.  The clock `now` counts the    *)
(* resolution of the filename timestamp; retention periods are counted in   *)
(* the same unit.                                                           *)
(***************************************************************************)
EXTENDS Integers, Sequences, FiniteSets, TLC

VARIABLES
    store,   \* backup_dir: filename -> file, the files matching no temp name
    temps,   \* temporary files present in backup_dir
    db,      \* the D1 database of every environment
    now,     \* datetime.now(), in filename-timestamp units
    nops,    \* number of CLI commands run so far
    last,    \* what the last CLI command did and returned
    prev,    \* the command before it: which, when, and its retention run
    procs,   \* invocations running side by side: the gateway commands each
             \* has still to issue and the one it is waiting for
    config   \* database_config: whether wrangler.jsonc gives the environment
             \* a database_id

vars == <<store, temps, db, now, nops, last, prev, procs, config>>

----------------------------------------------------------------------------
(* Bounds *)

MaxTime == 2
MaxOps == 2
MaxRows == 1
MaxLen == 3
MaxCap == 2
MaxProcs == 2

----------------------------------------------------------------------------
(* Configuration and data *)

\* DATABASE_CONFIG also holds "production", configured exactly as "staging"
\* (remote); the model keeps one local and one remote environment
Envs == {"local", "staging"}

\* load_database_config: the environments wrangler.jsonc gives a database_id
Configs == [Envs -> BOOLEAN]

AllConfigured == [e \in Envs |-> TRUE]

\* "if missing_configs: raise click.ClickException"
_validate_database_config_skipped(cfg) == TRUE

_validate_database_config(cfg) == \A env_name \in DOMAIN cfg : cfg[env_name]

IsRemote(env) == env # "local"

Tables == {"subscribers", "d1_migrations"}

Markers == {"CREATE TABLE", "INSERT INTO", "--"}

Tokens == Markers \cup {"x"}

ReadLimit == 2

Min(a, b) == IF a < b THEN a ELSE b

\* a filename: what precedes the first "-" (head), the second and third
\* "-"-separated part (env, ts) and what follows the timestamp: ".sql" or
\* ".sql.gz" (ext "sql"), ".sql.bak" (ext "bak"), ".txt" (ext "txt")
BackupName(env, ts, gz) ==
    [head |-> "backup", env |-> env, ts |-> ts, gz |-> gz, ext |-> "sql"]

NoName == BackupName("none", 0, FALSE)

\* the names generate_backup_filename gives
Names == {BackupName(e, t, gz) : e \in Envs, t \in 0..MaxTime, gz \in BOOLEAN}

EmptyStore == [n \in {} |-> 0]

Remove(st, gone) == [n \in DOMAIN st \ gone |-> st[n]]

Put(st, n, f) == [m \in DOMAIN st \cup {n} |-> IF m = n THEN f ELSE st[m]]

generate_backup_filename(env, t, compression) ==
    BackupName(env, t, compression)

----------------------------------------------------------------------------
(* verify_backup: the structural sniff test *)

HasMarker(toks) == \E i \in DOMAIN toks : toks[i] \in Markers

ReadHead(toks, n) == SubSeq(toks, 1, Min(n, Len(toks)))

\* the file can be opened the way its name says: gzip.open for *.gz, open
\* as text otherwise; the other combination raises and is caught
Readable(st, name) == name \in DOMAIN st /\ st[name].gzdata = name.gz

verify_backup_whole_file(st, name) ==
    /\ Readable(st, name)
    /\ HasMarker(st[name].toks)

verify_backup(st, name) ==
    /\ Readable(st, name)
    /\ HasMarker(ReadHead(st[name].toks, ReadLimit))

----------------------------------------------------------------------------
(* list_backups and cleanup_old_backups: the Retention Engine *)

EnvRank(env) ==
    CASE env = "local" -> 1
      [] env = "staging" -> 2
      [] OTHER -> 0

\* ".sql" < ".sql.bak" < ".sql.gz" < ".txt"
ExtRank(n) ==
    CASE n.ext = "txt" -> 4
      [] n.ext = "bak" -> 2
      [] n.gz -> 3
      [] OTHER -> 1

\* string order of the filenames backup-<env>-<timestamp>.sql[.gz]
NameLess(a, b) ==
    \/ EnvRank(a.env) < EnvRank(b.env)
    \/ /\ a.env = b.env
       /\ \/ a.ts < b.ts
          \/ a.ts = b.ts /\ ExtRank(a) < ExtRank(b)

\* glob("backup-*.sql*"), then the name without ".sql.gz"/".sql" split at
\* "-" has at least three parts, the first of them "backup"; a third part
\* that is no timestamp is kept as it is
Enumerated(n) == n.head = "backup" /\ n.ext \in {"sql", "bak"}

RECURSIVE SortDesc(_)
SortDesc(S) ==
    IF S = {} THEN <<>>
    ELSE LET m == CHOOSE x \in S : \A y \in S \ {x} : NameLess(y, x)
         IN  <<m>> \o SortDesc(S \ {m})

\* sorted(backups, key=filename, reverse=True), optionally of one environment
list_backups(st, environment_filter) ==
    SortDesc({n \in DOMAIN st :
                /\ Enumerated(n)
                /\ environment_filter = "" \/ n.env = environment_filter})

\* the environments in the order their first backup appears in the list
\* (the insertion order of the env_backups dictionary)
RECURSIVE EnvOrder(_, _)
EnvOrder(backups, seen) ==
    IF backups = <<>> THEN <<>>
    ELSE IF Head(backups).env \in seen THEN EnvOrder(Tail(backups), seen)
    ELSE <<Head(backups).env>>
            \o EnvOrder(Tail(backups), seen \cup {Head(backups).env})

\* m comes before n in sorted(..., key=st_mtime, reverse=True): the sort is
\* stable, so equal mtimes keep the order of the list (filename descending)
NewerFirst(st, m, n) ==
    \/ st[m].mtime > st[n].mtime
    \/ st[m].mtime = st[n].mtime /\ NameLess(n, m)

\* sorted_backups[max_backups_per_env + 1:]
BeyondCapKeepsOneMore(st, group, max_backups_per_env) ==
    {n \in group :
        Cardinality({m \in group : NewerFirst(st, m, n)}) > max_backups_per_env}

\* sorted_backups[max_backups_per_env:]
BeyondCap(st, group, max_backups_per_env) ==
    {n \in group :
        Cardinality({m \in group : NewerFirst(st, m, n)}) >= max_backups_per_env}

\* pass 1: the files older than the cutoff; unlink raises for those in bad
AgePass(st, t, retention_days, bad) ==
    {n \in DOMAIN st : Enumerated(n) /\ st[n].mtime < t - retention_days} \ bad

\* pass 2, from the i-th environment on; gone = the files unlinked so far.
\* env_backups was grouped before pass 1, so a group still lists the files
\* pass 1 unlinked; stat() of such a file in the sort key raises
\* FileNotFoundError outside any try block.
RECURSIVE CountPass(_, _, _, _, _, _)
CountPass(st, order, i, max_backups_per_env, bad, acc) ==
    IF i > Len(order) THEN acc
    ELSE LET group == {n \in DOMAIN st : Enumerated(n) /\ n.env = order[i]}
         IN  IF Cardinality(group) <= max_backups_per_env
             THEN CountPass(st, order, i + 1, max_backups_per_env, bad, acc)
             ELSE IF group \cap acc.gone # {}
             THEN [acc EXCEPT !.crashed = TRUE]
             ELSE LET del == BeyondCap(st, group, max_backups_per_env) \ bad
                  IN  CountPass(st, order, i + 1, max_backups_per_env, bad,
                                [gone |-> acc.gone \cup del,
                                 deleted_count |-> acc.deleted_count
                                                     + Cardinality(del),
                                 crashed |-> FALSE])

cleanup_old_backups(st, t, retention_days, max_backups_per_env, bad) ==
    LET backups == list_backups(st, "")
        old == AgePass(st, t, retention_days, bad)
        r == CountPass(st, EnvOrder(backups, {}), 1, max_backups_per_env, bad,
                       [gone |-> old, deleted_count |-> Cardinality(old),
                        crashed |-> FALSE])
    IN  [store |-> Remove(st, r.gone),
         aged |-> old,
         trimmed |-> r.gone \ old,
         crashed |-> r.crashed,
         ret |-> IF r.crashed THEN -1 ELSE r.deleted_count]

----------------------------------------------------------------------------
(* The Remote Command Gateway: commands issued and the database behind them *)

Cmd(c, env, arg) == [c |-> c, env |-> env, arg |-> arg]

\* outcomes of the count query: the wrangler CLI path, then the HTTP path
CountInputs ==
    {[cli |-> "ok", http |-> "ok"],
     [cli |-> "unparsed", http |-> "ok"],
     [cli |-> "fail", http |-> "ok"],
     [cli |-> "fail", http |-> "fail"]}

_get_subscriber_count_via_api(dbs, environment, http) ==
    [val |-> IF http = "ok" THEN dbs[environment].count ELSE 0,
     log |-> <<Cmd("http_count", environment, "")>>]

get_subscriber_count_api_always(dbs, environment, inp) ==
    LET api == _get_subscriber_count_via_api(dbs, environment, inp.http)
    IN  [val |-> api.val, log |-> <<Cmd("count", environment, "")>> \o api.log]

get_subscriber_count(dbs, environment, inp) ==
    LET cli == <<Cmd("count", environment, "")>>
        api == _get_subscriber_count_via_api(dbs, environment, inp.http)
    IN  IF inp.cli = "ok"
        THEN [val |-> dbs[environment].count, log |-> cli]
        ELSE IF IsRemote(environment)
        THEN [val |-> api.val, log |-> cli \o api.log]
        ELSE [val |-> 0, log |-> cli]

----------------------------------------------------------------------------
(* create_backup: the Backup Engine *)

TempName(kind, env, t) == [kind |-> kind, env |-> env, ts |-> t]

\* the text wrangler d1 export writes for a database, after strip()
DumpToks(d) ==
    <<"x">> \o (IF d.tables # {} THEN <<"CREATE TABLE">> ELSE <<>>)
            \o (IF d.count > 0 THEN <<"INSERT INTO">> ELSE <<>>)

HeaderToks == <<"--">>

\* what _do_backup writes to temp_file when the export succeeded: header,
\* migrations section, dump section (the dump, or a comment when the dump
\* file could not be read), completion marker
BackupToksUncommented(d, dumpRead) ==
    <<"x">> \o <<"x">> \o <<"x">>
        \o (IF dumpRead THEN DumpToks(d) ELSE <<"x">>) \o <<"x">>

BackupToks(d, dumpRead) ==
    HeaderToks \o <<"--">> \o <<"--">>
        \o (IF dumpRead THEN DumpToks(d) ELSE <<"--">>) \o <<"--">>

\* outcomes of the steps of one backup.  export: the wrangler d1 export
\* command succeeded or not, and whether the dump file exists / can be read.
\* fin: gzip-or-rename of temp_file to the final path.  vread: reading the
\* written file back in the verification step works.
ExportOutcomes == {"ok", "ok_unreadable", "ok_nofile", "fail", "fail_file"}

FinOutcomes == {"ok", "fail_partial", "fail_nofile"}

BackupInputs ==
    {i \in [cli : {"ok", "unparsed", "fail"}, http : {"ok", "fail"},
            mig : BOOLEAN, export : ExportOutcomes, fin : FinOutcomes,
            vread : BOOLEAN] :
        /\ [cli |-> i.cli, http |-> i.http] \in CountInputs
        /\ ~i.vread => i.cli = "ok" /\ i.mig /\ i.export = "ok" /\ i.fin = "ok"
        /\ i.export \notin {"ok", "ok_unreadable"} => i.fin = "ok"
        /\ ~i.mig => i.cli = "ok" /\ i.export \in {"ok", "fail"} /\ i.fin = "ok"
        /\ i.cli # "ok" => i.export \in {"ok", "fail"} /\ i.fin = "ok"}

\* the verification of the written file failed: backup_path.unlink
VerifyFailedKept(written, backup_filename) == written

VerifyFailed(written, backup_filename) == Remove(written, {backup_filename})

create_backup(st, tm, dbs, t, environment, compression, verify, inp) ==
    LET backup_filename == generate_backup_filename(environment, t, compression)
        cnt == get_subscriber_count(dbs, environment, inp)
        temp_file == TempName("temp", environment, t)
        d1_dump_file == TempName("d1_dump", environment, t)
        log == cnt.log \o <<Cmd("migrations", environment, ""),
                            Cmd("export", environment, "")>>
        dumpWritten == inp.export \in {"ok", "ok_unreadable", "fail_file"}
        exportGood == inp.export \in {"ok", "ok_unreadable"}
        dumpRead == inp.export = "ok"
        created == {temp_file} \cup (IF dumpWritten THEN {d1_dump_file} ELSE {})
        file == [mtime |-> t,
                 toks |-> BackupToks(dbs[environment], dumpRead),
                 gzdata |-> compression,
                 tables |-> IF dumpRead THEN dbs[environment].tables ELSE {},
                 count |-> IF dumpRead THEN dbs[environment].count ELSE 0,
                 hdr |-> cnt.val,
                 dump |-> dumpRead,
                 whole |-> TRUE]
        partial == [file EXCEPT !.toks = <<>>, !.tables = {}, !.count = 0,
                                !.dump = FALSE, !.whole = FALSE]
        written == Put(st, backup_filename, file)
        base == [name |-> backup_filename, log |-> log, created |-> created,
                 initial_count |-> cnt.val, cli |-> inp.cli, http |-> inp.http,
                 exportOk |-> inp.export \in {"ok", "ok_unreadable", "ok_nofile"}]
    IN  IF ~exportGood
        THEN \* raise ClickException: temp_file (and a dump file the failed
             \* export left) stay; nothing is written to the final path
             base @@ [store |-> st, temps |-> tm \cup created, ret |-> NoName,
                      verifyFailed |-> FALSE]
        ELSE IF inp.fin # "ok"
        THEN \* gzip/rename raised: temp_file stays; gzip.open may already
             \* have created the final path
             base @@ [store |-> IF compression /\ inp.fin = "fail_partial"
                                THEN Put(st, backup_filename, partial) ELSE st,
                      temps |-> (tm \ {d1_dump_file}) \cup {temp_file},
                      ret |-> NoName, verifyFailed |-> FALSE]
        ELSE IF verify /\ ~(inp.vread /\ verify_backup(written, backup_filename))
        THEN base @@ [store |-> VerifyFailed(written, backup_filename),
                      temps |-> tm \ created, ret |-> NoName,
                      verifyFailed |-> TRUE]
        ELSE base @@ [store |-> written, temps |-> tm \ created,
                      ret |-> backup_filename, verifyFailed |-> FALSE]

----------------------------------------------------------------------------
(* restore_database: the Restore Engine *)

\* the order in which sqlite_master lists the tables
TableOrder == <<"subscribers", "d1_migrations">>

\* the drop loop run a second time
DropCmdsRetried(env, tables) ==
    LET present == SelectSeq(TableOrder, LAMBDA x : x \in tables)
        once == [i \in 1..Len(present) |-> Cmd("drop", env, present[i])]
    IN  once \o once

DropCmds(env, tables) ==
    LET present == SelectSeq(TableOrder, LAMBDA x : x \in tables)
    IN  [i \in 1..Len(present) |-> Cmd("drop", env, present[i])]

\* the database after the tables in `dropped` are gone
AfterDrop(d, dropped) ==
    [tables |-> d.tables \ dropped,
     count |-> IF "subscribers" \in dropped THEN 0 ELSE d.count]

\* the database after wrangler executed the reload file successfully
AfterReload(d, file) ==
    [tables |-> d.tables \cup file.tables,
     count |-> Min(MaxRows, d.count + file.count)]

\* the safety backup and the source backup of a migration are run with
\* these outcomes
NestedBackupInputs ==
    {i \in BackupInputs :
        /\ i.cli = "ok" /\ i.mig /\ i.vread
        /\ i.export \in {"ok", "fail"}
        /\ i.fin \in {"ok", "fail_partial"}}

\* prep: reading the artifact as restore_database found it and writing the
\* reload file work
RestoreInputs ==
    {i \in [bk : NestedBackupInputs, prep : BOOLEAN, enum : BOOLEAN,
            dropFail : SUBSET Tables, reload : BOOLEAN,
            cnt : {c \in CountInputs : c.cli = c.http}] :
        /\ ~i.prep => i.enum /\ i.reload
        /\ ~(i.prep /\ i.enum) => i.dropFail = {}
        /\ ~(i.prep /\ i.reload) => i.cnt.cli = "ok"}

NoRestore ==
    [ran |-> FALSE, sniff |-> FALSE, safety |-> FALSE, safetyRet |-> NoName,
     intact |-> FALSE, prepTried |-> FALSE, prepared |-> FALSE,
     enumOk |-> FALSE,
     tablesBefore |-> {},
     tablesAtReload |-> {}, reloadIssued |-> FALSE, reloadOk |-> FALSE,
     recorded |-> 0, ret |-> FALSE]

NoSafetyBackup(st, tm) ==
    [store |-> st, temps |-> tm, ret |-> NoName, log |-> <<>>, created |-> {}]

\* restore_database from "Prepare restore file" on; s = the backup directory
\* and temporary files the safety backup step left, with what it returned,
\* and the backup directory as restore_database was given it
restore_from_prepare(s, dbs, t, environment, backup_filename, create_safety_backup, verify_restore, inp) ==
    LET temp_sql == TempName("restore_temp", "", t)
        prepared == /\ inp.prep
                    /\ backup_filename \in DOMAIN s.store
                    /\ backup_filename.gz => s.store[backup_filename].whole
        tables == IF inp.enum THEN dbs[environment].tables ELSE {}
        atReload == AfterDrop(dbs[environment], tables \ inp.dropFail)
        after == IF inp.reload
                 THEN AfterReload(atReload, s.store[backup_filename])
                 ELSE atReload
        dbs2 == [dbs EXCEPT ![environment] = after]
        info == [NoRestore EXCEPT !.ran = TRUE, !.sniff = TRUE,
                                  !.safety = create_safety_backup,
                                  !.safetyRet = s.ret,
                                  !.intact = inp.prep,
                                  !.prepTried = TRUE,
                                  !.recorded =
                                      IF backup_filename \in DOMAIN s.given
                                      THEN s.given[backup_filename].hdr ELSE 0,
                                  !.tablesBefore = dbs[environment].tables]
    IN  IF ~prepared
        THEN \* gzip.open/copy raised: caught by the outer except, temp_sql
             \* is not removed
             [store |-> s.store, temps |-> s.temps \cup {temp_sql}, db |-> dbs,
              log |-> s.log, created |-> s.created \cup {temp_sql},
              info |-> info]
        ELSE [store |-> s.store, temps |-> s.temps \ {temp_sql}, db |-> dbs2,
              log |-> s.log \o <<Cmd("enum", environment, "")>>
                        \o DropCmds(environment, tables)
                        \o <<Cmd("reload", environment, "")>>
                        \o (IF inp.reload /\ verify_restore
                            THEN get_subscriber_count(dbs2, environment,
                                                      inp.cnt).log
                            ELSE <<>>),
              created |-> s.created \cup {temp_sql},
              info |-> [info EXCEPT !.prepared = TRUE, !.enumOk = inp.enum,
                                    !.tablesAtReload = atReload.tables,
                                    !.reloadIssued = TRUE,
                                    !.reloadOk = inp.reload,
                                    !.ret = inp.reload]]

\* "if safety_backup: ... else: print Warning": the restore goes on
restore_steps_safety_fatal(st, tm, dbs, t, environment, backup_filename, create_safety_backup, verify_restore, inp) ==
    LET s == [given |-> st]
               @@ (IF create_safety_backup
                   THEN create_backup(st, tm, dbs, t, environment, TRUE, FALSE,
                                      inp.bk)
                   ELSE NoSafetyBackup(st, tm))
        info == [NoRestore EXCEPT !.ran = TRUE, !.sniff = TRUE,
                                  !.safety = TRUE, !.intact = inp.prep]
    IN  IF create_safety_backup /\ s.ret = NoName
        THEN [store |-> s.store, temps |-> s.temps, db |-> dbs, log |-> s.log,
              created |-> s.created, info |-> info]
        ELSE restore_from_prepare(s, dbs, t, environment, backup_filename,
                                  create_safety_backup, verify_restore, inp)

\* the safety backup taken when the tables are gone and reloaded
restore_steps_safety_last(st, tm, dbs, t, environment, backup_filename, create_safety_backup, verify_restore, inp) ==
    LET r == restore_from_prepare([given |-> st] @@ NoSafetyBackup(st, tm),
                                  dbs, t, environment, backup_filename,
                                  create_safety_backup, verify_restore, inp)
        b == create_backup(r.store, r.temps, r.db, t, environment, TRUE, FALSE,
                           inp.bk)
    IN  IF create_safety_backup
        THEN [r EXCEPT !.store = b.store, !.temps = b.temps,
                       !.log = r.log \o b.log,
                       !.created = r.created \cup b.created,
                       !.info.safetyRet = b.ret]
        ELSE r

\* the body of restore_database after the sniff test passed
restore_steps(st, tm, dbs, t, environment, backup_filename, create_safety_backup, verify_restore, inp) ==
    restore_from_prepare(
        [given |-> st]
          @@ (IF create_safety_backup
              THEN create_backup(st, tm, dbs, t, environment, TRUE, FALSE, inp.bk)
              ELSE NoSafetyBackup(st, tm)),
        dbs, t, environment, backup_filename, create_safety_backup,
        verify_restore, inp)

restore_database_no_sniff(st, tm, dbs, t, environment, backup_filename, create_safety_backup, verify_restore, inp) ==
    restore_steps(st, tm, dbs, t, environment, backup_filename,
                  create_safety_backup, verify_restore, inp)

restore_database(st, tm, dbs, t, environment, backup_filename, create_safety_backup, verify_restore, inp) ==
    IF ~verify_backup(st, backup_filename)
    THEN [store |-> st, temps |-> tm, db |-> dbs, log |-> <<>>, created |-> {},
          info |-> [NoRestore EXCEPT !.ran = TRUE,
                                     !.safety = create_safety_backup]]
    ELSE restore_steps(st, tm, dbs, t, environment, backup_filename,
                       create_safety_backup, verify_restore, inp)

----------------------------------------------------------------------------
(* The CLI commands *)

NoBackup == [ran |-> FALSE, name |-> NoName, ret |-> NoName, exportOk |-> FALSE,
             compression |-> FALSE, verify |-> FALSE, verifyFailed |-> FALSE,
             initial_count |-> 0, cli |-> "ok", http |-> "ok"]

NoCleanup == [ran |-> FALSE, ret |-> 0, crashed |-> FALSE, aged |-> {},
              trimmed |-> {}, would |-> {}, days |-> 0, cap |-> 0,
              unlinkError |-> FALSE]

NoOp ==
    [cmd |-> "none", env |-> "none", src |-> "none", file |-> NoName,
     bookmark |-> FALSE, timestamp |-> FALSE, force |-> FALSE,
     asked |-> FALSE, confirmed |-> FALSE, dryRun |-> FALSE, exit |-> 0,
     ttOk |-> FALSE, log |-> <<>>, created |-> {}, pre |-> EmptyStore,
     at |-> 0, bk |-> NoBackup, rs |-> NoRestore, cl |-> NoCleanup]

\* the exit code of a command whose operation returned: "if <result>: ...
\* else: sys.exit(1)"
ExitCodeZero(success) == 0

ExitCode(success) == IF success THEN 0 ELSE 1

\* what is kept of a command when the next one has run
Before(l) == [cmd |-> l.cmd, dryRun |-> l.dryRun, at |-> l.at, cl |-> l.cl]

BackupInfo(b, compression, verify) ==
    [ran |-> TRUE, name |-> b.name, ret |-> b.ret, exportOk |-> b.exportOk,
     compression |-> compression, verify |-> verify,
     verifyFailed |-> b.verifyFailed,
     initial_count |-> b.initial_count, cli |-> b.cli, http |-> b.http]

\* --force given, or the answer to Confirm.ask when it is not
Consents == {[force |-> TRUE, answer |-> FALSE],
             [force |-> FALSE, answer |-> TRUE],
             [force |-> FALSE, answer |-> FALSE]}

Started(cmd, env, c) ==
    [NoOp EXCEPT !.cmd = cmd, !.env = env, !.force = c.force,
                 !.asked = ~c.force, !.confirmed = ~c.force /\ c.answer,
                 !.pre = store, !.at = now]

backup(environment, no_compression, no_verify, inp) ==
    \E b \in {create_backup(store, temps, db, now, environment,
                           ~no_compression, ~no_verify, inp)} :
        /\ store' = b.store
        /\ temps' = b.temps
        /\ last' = [NoOp EXCEPT !.cmd = "backup", !.env = environment,
                                !.pre = store, !.at = now,
                                !.log = b.log, !.created = b.created,
                                !.bk = BackupInfo(b, ~no_compression, ~no_verify),
                                !.exit = ExitCode(b.ret # NoName)]
        /\ nops' = nops + 1
        /\ UNCHANGED <<db, now>>

restore(environment, backup_file, no_safety_backup, no_verify, c, inp) ==
    \E r \in {restore_database(store, temps, db, now, environment, backup_file,
                              ~no_safety_backup, ~no_verify, inp)},
       begun \in {[Started("restore", environment, c)
                     EXCEPT !.file = backup_file]} :
        /\ nops' = nops + 1
        /\ UNCHANGED now
        /\ IF ~c.force /\ ~c.answer
           THEN /\ last' = begun
                /\ UNCHANGED <<store, temps, db>>
           ELSE /\ store' = r.store
                /\ temps' = r.temps
                /\ db' = r.db
                /\ last' = [begun EXCEPT !.log = r.log, !.created = r.created,
                                         !.rs = r.info,
                                         !.exit = ExitCode(r.info.ret)]

cleanup(retention_days, max_per_env, dry_run, bad) ==
    \E r \in {cleanup_old_backups(store, now, retention_days, max_per_env,
                                   bad)},
       would_delete \in {{n \in DOMAIN store :
                            /\ Enumerated(n)
                            /\ store[n].mtime < now - retention_days}},
       begun \in {[NoOp EXCEPT !.cmd = "cleanup", !.dryRun = dry_run,
                               !.pre = store, !.at = now]} :
        /\ nops' = nops + 1
        /\ UNCHANGED <<temps, db, now>>
        /\ IF dry_run
           THEN /\ bad = {}
                /\ UNCHANGED store
                /\ last' = [begun EXCEPT
                              !.cl = [NoCleanup EXCEPT !.ran = TRUE,
                                          !.would = would_delete,
                                          !.days = retention_days,
                                          !.cap = max_per_env]]
           ELSE /\ store' = r.store
                /\ last' = [begun EXCEPT
                              !.exit = IF r.crashed THEN 1 ELSE 0,
                              !.cl = [NoCleanup EXCEPT !.ran = TRUE,
                                          !.ret = r.ret,
                                          !.crashed = r.crashed,
                                          !.aged = r.aged,
                                          !.trimmed = r.trimmed,
                                          !.days = retention_days,
                                          !.cap = max_per_env,
                                          !.unlinkError = bad # {}]]

\* "if source_env == target_env"
SameEnvironmentAllowed(source_env, target_env) == FALSE

SameEnvironment(source_env, target_env) == source_env = target_env

\* "if not backup_filename": the source backup of a migration failed
SourceBackupFailedIgnored(b) == FALSE

SourceBackupFailed(b) == b.ret = NoName

migrate(source_env, target_env, c, bkinp, inp) ==
    \E b \in {create_backup(store, temps, db, now, source_env, TRUE, TRUE,
                             bkinp)},
       begun \in {[Started("migrate", target_env, c)
                     EXCEPT !.src = source_env]} :
    \E r \in {restore_database(b.store, b.temps, db, now, target_env, b.ret,
                                TRUE, TRUE, inp)} :
        /\ nops' = nops + 1
        /\ UNCHANGED now
        /\ IF SameEnvironment(source_env, target_env)
           THEN /\ last' = [NoOp EXCEPT !.cmd = "migrate", !.env = target_env,
                                        !.src = source_env,
                                        !.pre = store, !.at = now, !.exit = 1]
                /\ UNCHANGED <<store, temps, db>>
           ELSE IF ~c.force /\ ~c.answer
           THEN /\ last' = begun
                /\ UNCHANGED <<store, temps, db>>
           ELSE IF SourceBackupFailed(b)
           THEN /\ store' = b.store
                /\ temps' = b.temps
                /\ UNCHANGED db
                /\ last' = [begun EXCEPT !.log = b.log, !.created = b.created,
                                         !.bk = BackupInfo(b, TRUE, TRUE),
                                         !.exit = 1]
           ELSE /\ store' = r.store
                /\ temps' = r.temps
                /\ db' = r.db
                /\ last' = [begun EXCEPT !.log = b.log \o r.log,
                                         !.created = b.created \cup r.created,
                                         !.file = b.ret,
                                         !.bk = BackupInfo(b, TRUE, TRUE),
                                         !.rs = r.info,
                                         !.exit = ExitCode(r.info.ret)]

verify(backup_file) ==
    /\ nops' = nops + 1
    /\ last' = [NoOp EXCEPT !.cmd = "verify", !.file = backup_file,
                            !.pre = store, !.at = now,
                            !.exit = ExitCode(verify_backup(store,
                                                            backup_file))]
    /\ UNCHANGED <<store, temps, db, now>>

\* neither "bookmark and timestamp" nor "not bookmark and not timestamp"
OneSelectorOrBoth(bookmark, timestamp) == bookmark \/ timestamp

OneSelector(bookmark, timestamp) == bookmark # timestamp

\* bookmark, timestamp: a non-empty value of the option was given.
\* What the database holds after a point-in-time restore is decided by the
\* vendor: one of its earlier states
timetravel_restore(environment, bookmark, timestamp, c, success, earlier) ==
    \E begun \in {[Started("timetravel", environment, c)
                     EXCEPT !.bookmark = bookmark, !.timestamp = timestamp]} :
        /\ nops' = nops + 1
        /\ UNCHANGED <<store, temps, now>>
        /\ IF ~OneSelector(bookmark, timestamp)
           THEN /\ last' = [NoOp EXCEPT !.cmd = "timetravel",
                                        !.env = environment, !.pre = store,
                                        !.bookmark = bookmark,
                                        !.timestamp = timestamp,
                                        !.at = now, !.exit = 1]
                /\ UNCHANGED db
           ELSE IF ~c.force /\ ~c.answer
           THEN /\ last' = begun
                /\ UNCHANGED db
           ELSE /\ last' = [begun EXCEPT
                              !.log = <<Cmd("timetravel", environment,
                                            IF bookmark THEN "bookmark"
                                            ELSE "timestamp")>>,
                              !.ttOk = success,
                              !.exit = ExitCode(success)]
                /\ db' = IF success THEN [db EXCEPT ![environment] = earlier]
                         ELSE db

\* DatabaseBackupRestore() raised: the command ends with exit code 1 before
\* its first step.  Every command constructs the orchestrator first, migrate
\* after it has compared its two environments.
ConfigError ==
    /\ nops' = nops + 1
    /\ last' = [NoOp EXCEPT !.cmd = "config_error", !.pre = store, !.at = now,
                            !.exit = 1]
    /\ UNCHANGED <<store, temps, db, now>>

\* the invocations of the script that run at the same time
Procs == 1..MaxProcs

NoCmd == Cmd("none", "none", "")

Idle == [queue |-> <<>>, flying |-> NoCmd]

\* a second passes
Tick ==
    /\ now < MaxTime
    /\ now' = now + 1
    /\ UNCHANGED <<store, temps, db, nops, last, prev, procs, config>>

----------------------------------------------------------------------------
(* Specifications *)

\* a filename given on the command line that no file of backup_dir has
MissingName == BackupName("staging", MaxTime + 1, TRUE)

\* a file somebody put into backup_dir
Foreign(mtime, toks, gzdata) ==
    [mtime |-> mtime, toks |-> toks, gzdata |-> gzdata, tables |-> {},
     count |-> 0, hdr |-> 0, dump |-> FALSE, whole |-> TRUE]

DbStates == {[tables |-> Tables, count |-> c] : c \in 0..MaxRows}

\* the local database starts empty, the remote ones hold MaxRows subscribers
InitDb ==
    [e \in Envs |-> [tables |-> Tables,
                     count |-> IF IsRemote(e) THEN MaxRows ELSE 0]]

InitStores ==
    {EmptyStore,
     Put(EmptyStore, BackupName("staging", 0, FALSE),
         Foreign(0, <<"x">>, FALSE))}

\* the clock starts after the timestamp of the files already there
Init ==
    /\ store \in InitStores
    /\ temps = {}
    /\ db = InitDb
    /\ now = 1
    /\ nops = 0
    /\ last = NoOp
    /\ prev = Before(NoOp)
    /\ procs = [p \in Procs |-> Idle]
    /\ config \in Configs

OneBad(st) == {S \in SUBSET DOMAIN st : Cardinality(S) <= 1}

\* every step succeeds
OkBackup == [cli |-> "ok", http |-> "ok", mig |-> TRUE, export |-> "ok",
             fin |-> "ok", vread |-> TRUE]

OkRestore == [bk |-> OkBackup, prep |-> TRUE, enum |-> TRUE, dropFail |-> {},
              reload |-> TRUE, cnt |-> [cli |-> "ok", http |-> "ok"]]

Proceeds(c) == c.force \/ c.answer

\* the outcomes of the steps a restore with these options runs
RestoreInputsFor(c, create_safety_backup, verify_restore) ==
    IF ~Proceeds(c) THEN {OkRestore}
    ELSE {i \in RestoreInputs :
            /\ ~create_safety_backup => i.bk = OkBackup
            /\ ~verify_restore => i.cnt.cli = "ok"}

\* one CLI command
Command ==
    \/ \E e \in Envs, nc \in BOOLEAN, nv \in BOOLEAN, i \in BackupInputs :
          backup(e, nc, nv, i)
    \/ \E e \in Envs, f \in DOMAIN store \cup {MissingName}, ns \in BOOLEAN,
          nv \in BOOLEAN, c \in Consents :
          \E i \in IF verify_backup(store, f)
                    THEN RestoreInputsFor(c, ~ns, ~nv) ELSE {OkRestore} :
             restore(e, f, ns, nv, c, i)
    \/ \E d \in 0..MaxTime, m \in 1..MaxCap, dry \in BOOLEAN,
          bad \in OneBad(store) :
          cleanup(d, m, dry, bad)
    \/ \E s \in Envs, t \in Envs, c \in Consents :
          \E b \in IF s # t /\ Proceeds(c) THEN NestedBackupInputs
                    ELSE {OkBackup} :
             \E i \in IF s # t /\ b = OkBackup
                       THEN RestoreInputsFor(c, TRUE, TRUE) ELSE {OkRestore} :
                migrate(s, t, c, b, i)
    \/ \E f \in DOMAIN store \cup {MissingName} : verify(f)
    \/ \E e \in Envs \ {"local"}, bm \in BOOLEAN, ts \in BOOLEAN,
          c \in Consents, ok \in BOOLEAN, d \in DbStates :
          timetravel_restore(e, bm, ts, c, ok, d)

\* a command with a database_id missing
Rejected ==
    \/ ConfigError
    \/ \E s \in Envs, c \in Consents : migrate(s, s, c, OkBackup, OkRestore)

Next ==
    \/ /\ nops < MaxOps
       /\ _validate_database_config(config)
       /\ Command
       /\ prev' = Before(last)
       /\ UNCHANGED <<procs, config>>
    \/ /\ nops < MaxOps
       /\ ~_validate_database_config(config)
       /\ Rejected
       /\ prev' = Before(last)
       /\ UNCHANGED <<procs, config>>
    \/ Tick

Spec == Init /\ [][Next]_vars

\* the sniff test on arbitrary files
TokSeqs == UNION {[1..n -> Tokens] : n \in 0..MaxLen}

InitVerify ==
    /\ \E gz \in BOOLEAN, gzdata \in BOOLEAN, toks \in TokSeqs :
          store = Put(EmptyStore, BackupName("staging", 0, gz),
                      Foreign(0, toks, gzdata))
    /\ temps = {}
    /\ db = InitDb
    /\ now = 1
    /\ nops = 0
    /\ last = NoOp
    /\ prev = Before(NoOp)
    /\ procs = [p \in Procs |-> Idle]
    /\ config = AllConfigured

NextVerify ==
    /\ nops < MaxOps
    /\ \E f \in DOMAIN store \cup {MissingName} : verify(f)
    /\ prev' = Before(last)
    /\ UNCHANGED <<procs, config>>

SpecVerify == InitVerify /\ [][NextVerify]_vars

\* retention on arbitrary sets of artifacts
MaxFiles == 4

\* an artifact of an earlier backup, last modified at mtime
Artifact(n, mtime) == Foreign(mtime, <<"--">>, n.gz)

\* the names of the artifacts in the store: per environment the compressed
\* backup of every second and the uncompressed one of the first
CleanupNames == {n \in Names : n.ts >= 1 /\ (n.gz \/ n.ts = 1)}

CleanupStores ==
    UNION {{[n \in S |-> Artifact(n, m[n])] : m \in [S -> 0..MaxTime]} :
             S \in {T \in SUBSET CleanupNames : Cardinality(T) <= MaxFiles}}

InitCleanup ==
    /\ store \in CleanupStores
    /\ temps = {}
    /\ db = InitDb
    /\ now = MaxTime
    /\ nops = 0
    /\ last = NoOp
    /\ prev = Before(NoOp)
    /\ procs = [p \in Procs |-> Idle]
    /\ config = AllConfigured

NextCleanup ==
    /\ nops < MaxOps
    /\ \E d \in 0..MaxTime, m \in 1..MaxCap, dry \in BOOLEAN,
          bad \in OneBad(store) :
          cleanup(d, m, dry, bad)
    /\ prev' = Before(last)
    /\ UNCHANGED <<procs, config>>

SpecCleanup == InitCleanup /\ [][NextCleanup]_vars

\* several invocations of the script at once.  Each runs one operation
\* after the other; an operation issues its gateway commands in order, and
\* run_wrangler_command blocks until the command it issued has ended.
\* Only the command traffic is followed here: every step succeeds and the
\* backup directory and the databases stay as they are.
BackupCmds(e) ==
    create_backup(store, temps, db, now, e, TRUE, TRUE, OkBackup).log

RestoreCmds(e, f) ==
    restore_database(store, temps, db, now, e, f, TRUE, TRUE, OkRestore).log

Invoke(p) ==
    /\ procs[p] = Idle
    /\ \E e \in Envs :
         \E q \in {BackupCmds(e)} \cup {RestoreCmds(e, f) : f \in DOMAIN store} :
            procs' = [procs EXCEPT ![p].queue = q]
    /\ UNCHANGED <<store, temps, db, now, nops, last, prev, config>>

\* subprocess.run starts the command
Issue(p) ==
    /\ procs[p].flying = NoCmd
    /\ procs[p].queue # <<>>
    /\ procs' = [procs EXCEPT ![p].flying = Head(procs[p].queue),
                              ![p].queue = Tail(procs[p].queue)]
    /\ UNCHANGED <<store, temps, db, now, nops, last, prev, config>>

\* subprocess.run returns
Complete(p) ==
    /\ procs[p].flying # NoCmd
    /\ procs' = [procs EXCEPT ![p].flying = NoCmd]
    /\ UNCHANGED <<store, temps, db, now, nops, last, prev, config>>

InitInflight ==
    /\ store = Put(EmptyStore, BackupName("staging", 0, TRUE),
                   Artifact(BackupName("staging", 0, TRUE), 0))
    /\ temps = {}
    /\ db = InitDb
    /\ now = 1
    /\ nops = 0
    /\ last = NoOp
    /\ prev = Before(NoOp)
    /\ procs = [p \in Procs |-> Idle]
    /\ config = AllConfigured

NextInflight == \E p \in Procs : Invoke(p) \/ Issue(p) \/ Complete(p)

SpecInflight == InitInflight /\ [][NextInflight]_vars

\* retention on a directory that also holds files of other names
\* a third part of a filename that is no timestamp, such as "notes"
NoStamp == MaxTime + 2

\* backup-staging-<ts>.sql.gz, backup-staging-<ts>.sql.bak,
\* backup-staging-notes.sql, backup-staging-<ts>.txt, dump-staging-<ts>.sql
ListNames ==
    {BackupName("staging", 1, TRUE),
     [BackupName("staging", 1, FALSE) EXCEPT !.ext = "bak"],
     BackupName("staging", NoStamp, FALSE),
     [BackupName("staging", 1, FALSE) EXCEPT !.ext = "txt"],
     [BackupName("staging", 1, FALSE) EXCEPT !.head = "dump"]}

ListStores ==
    UNION {{[n \in S |-> Artifact(n, m[n])] : m \in [S -> {0, MaxTime}]} :
             S \in SUBSET ListNames}

InitList ==
    /\ store \in ListStores
    /\ temps = {}
    /\ db = InitDb
    /\ now = MaxTime
    /\ nops = 0
    /\ last = NoOp
    /\ prev = Before(NoOp)
    /\ procs = [p \in Procs |-> Idle]
    /\ config = AllConfigured

NextList ==
    /\ nops < MaxOps
    /\ \E d \in 0..MaxTime, m \in 1..MaxCap, dry \in BOOLEAN :
          cleanup(d, m, dry, {})
    /\ prev' = Before(last)
    /\ UNCHANGED <<procs, config>>

SpecList == InitList /\ [][NextList]_vars

----------------------------------------------------------------------------
(* Properties *)

Issued(kinds) == {i \in DOMAIN last.log : last.log[i].c \in kinds}

Deleted == DOMAIN last.pre \ DOMAIN store

\* C1: whenever restore_database issues the reload command, every table the
\* target held before the restore has been dropped, whatever the table
\* enumeration and the drop commands returned.
C1_ReloadStartsSchemaFree ==
    last.rs.reloadIssued => last.rs.tablesAtReload = {}

\* C2: the count pass trims the artifacts that survived the age pass: an
\* environment with at most max_per_env survivors loses none of them, any
\* other loses exactly its survivors beyond the cap, newest kept.
C2_CountPassOverSurvivors ==
    (last.cmd = "cleanup" /\ ~last.dryRun /\ ~last.cl.unlinkError) =>
        \A e \in Envs :
            LET survivors == {n \in DOMAIN last.pre \ last.cl.aged : n.env = e}
            IN  {n \in last.cl.trimmed : n.env = e}
                  = IF Cardinality(survivors) <= last.cl.cap THEN {}
                    ELSE BeyondCap(last.pre, survivors, last.cl.cap)

\* C3: cleanup completes normally and returns the number of artifacts it
\* removed from the store.
C3_ReturnsRemovedCount ==
    (last.cmd = "cleanup" /\ ~last.dryRun) =>
        /\ ~last.cl.crashed
        /\ last.cl.ret = Cardinality(Deleted)

\* C4: when the export command of a backup fails, create_backup returns no
\* filename and the store holds no file under the filename chosen for it.
C4_DumpFailureLeavesNoArtifact ==
    (last.cmd = "backup" /\ ~last.bk.exportOk) =>
        /\ last.bk.ret = NoName
        /\ last.exit = 1
        /\ last.bk.name \notin DOMAIN store

\* C5: no temporary file a backup, restore or migration created is left in
\* the backup directory when the command returns.
C5_NoTempFileLeft ==
    last.created \cap temps = {}

\* C6: a command that dropped or reloaded a database, ran a point-in-time
\* restore or deleted artifacts was confirmed by the operator or forced.
C6_DestructionConfirmedOrForced ==
    (Issued({"drop", "reload", "timetravel"}) # {}
        \/ (last.cmd = "cleanup" /\ Deleted # {}))
    => (last.force \/ last.confirmed)

\* C7: when the artifact given to restore_database fails the sniff test the
\* restore returns failure having issued no gateway command, taken no
\* safety backup, and changed neither the backup directory nor the database.
C7_SniffFailureAbortsFirst ==
    (last.cmd = "restore" /\ (last.force \/ last.confirmed)
        /\ ~verify_backup(last.pre, last.file)) =>
        /\ last.exit = 1
        /\ ~last.rs.ret
        /\ last.log = <<>>
        /\ last.created = {}
        /\ store = last.pre

C7_Witness ==
    /\ last.cmd = "restore"
    /\ last.rs.ran
    /\ last.rs.safety
    /\ last.file \in DOMAIN last.pre
    /\ ~verify_backup(last.pre, last.file)
    /\ last.exit = 1

\* C8: after a failed safety backup the restore still issues the drop of
\* every enumerated table and the reload (unless reading the artifact or
\* writing the reload file fails of itself); a failed reload makes
\* restore_database return False and the command exit with 1.
C8_SafetyFailureDoesNotAbort ==
    /\ (last.rs.ran /\ last.rs.sniff /\ last.rs.safety
            /\ last.rs.safetyRet = NoName /\ last.rs.intact) =>
        /\ last.rs.reloadIssued
        /\ last.rs.enumOk =>
             \A t \in last.rs.tablesBefore :
                \E i \in Issued({"drop"}) : last.log[i].arg = t
    /\ (last.rs.reloadIssued /\ ~last.rs.reloadOk) =>
        /\ ~last.rs.ret
        /\ last.exit = 1

\* C9 as stated: verify_backup accepts a readable artifact exactly when its
\* content holds a marker anywhere.
C9_MarkerAnywhere ==
    (last.cmd = "verify" /\ Readable(last.pre, last.file)) =>
        (last.exit = 0 <=> HasMarker(last.pre[last.file].toks))

\* C9 amended: verify_backup accepts a readable artifact exactly when the
\* first 1000 characters of its content hold a marker.
C9_MarkerInHead ==
    (last.cmd = "verify" /\ Readable(last.pre, last.file)) =>
        (last.exit = 0 <=>
            HasMarker(ReadHead(last.pre[last.file].toks, ReadLimit)))

C9_Witness ==
    /\ last.cmd = "verify"
    /\ Readable(last.pre, last.file)
    /\ HasMarker(last.pre[last.file].toks)
    /\ ~HasMarker(ReadHead(last.pre[last.file].toks, ReadLimit))
    /\ last.exit = 1

\* C10: every artifact create_backup returns passes the sniff test, for the
\* backup command, the source backup of a migration and the safety backup
\* of a restore (which runs with verify disabled).
C10_CreatedArtifactPassesSniff ==
    /\ (last.bk.ran /\ last.bk.ret # NoName) =>
          verify_backup(store, last.bk.ret)
    /\ (last.rs.ran /\ last.rs.safetyRet # NoName) =>
          verify_backup(store, last.rs.safetyRet)

C10_Witness ==
    /\ last.cmd = "backup"
    /\ last.bk.ret # NoName
    /\ ~last.bk.verify
    /\ ~last.bk.compression
    /\ last.bk.ret \in DOMAIN store

\* C11: when the verification of the artifact a backup has just written
\* fails, create_backup returns no filename and no file is left under the
\* artifact's name.
C11_UnverifiedArtifactRemoved ==
    (last.bk.ran /\ last.bk.verifyFailed) =>
        /\ last.bk.ret = NoName
        /\ last.bk.name \notin DOMAIN store
        /\ last.exit = 1

C11_Witness ==
    /\ last.cmd = "backup"
    /\ last.bk.verify
    /\ last.bk.verifyFailed
    /\ last.bk.name \notin DOMAIN store
    /\ last.exit = 1

\* C12: a cleanup that follows a cleanup with the same retention-days and
\* max-per-env values at the same clock reading, no unlink having failed,
\* deletes nothing and returns 0.
C12_SecondCleanupDeletesNothing ==
    (/\ last.cmd = "cleanup" /\ ~last.dryRun /\ ~last.cl.unlinkError
     /\ prev.cmd = "cleanup" /\ ~prev.dryRun /\ ~prev.cl.unlinkError
     /\ last.cl.days = prev.cl.days
     /\ last.cl.cap = prev.cl.cap
     /\ last.at = prev.at) =>
        /\ Deleted = {}
        /\ last.cl.ret = 0

\* C13: an environment that holds more than max-per-env artifacts, with
\* distinct modification times and none older than the cutoff, loses exactly
\* its artifacts beyond the cap in modification-time order, newest kept.
C13_OldestBeyondCapDeleted ==
    (last.cmd = "cleanup" /\ ~last.dryRun /\ ~last.cl.unlinkError) =>
        \A e \in Envs :
            LET group == {n \in DOMAIN last.pre : n.env = e}
                mtime(n) == last.pre[n].mtime
            IN  (/\ Cardinality(group) > last.cl.cap
                 /\ \A m, n \in group : m # n => mtime(m) # mtime(n)
                 /\ \A n \in group : mtime(n) >= last.at - last.cl.days) =>
                    {n \in Deleted : n.env = e}
                      = {n \in group :
                           Cardinality({m \in group : mtime(m) > mtime(n)})
                             >= last.cl.cap}

\* C14: when the source backup of a migration fails, the command exits
\* with 1 without starting the restore: no command is issued against the
\* target environment and its database is left as it was.
C14_FailedSourceBackupAbortsMigration ==
    (last.cmd = "migrate" /\ last.bk.ran /\ last.bk.ret = NoName) =>
        /\ last.exit = 1
        /\ ~last.rs.ran
        /\ \A i \in DOMAIN last.log : last.log[i].env # last.env

C14_Witness ==
    /\ last.cmd = "migrate"
    /\ last.bk.ran
    /\ last.bk.ret = NoName
    /\ Issued({"export"}) # {}
    /\ last.exit = 1

\* C15: a migration whose source and target environment are the same exits
\* with 1 without asking, having issued no gateway command and written no
\* file.
C15_SameEnvironmentRejected ==
    (last.cmd = "migrate" /\ last.src = last.env) =>
        /\ last.exit = 1
        /\ ~last.asked
        /\ last.log = <<>>
        /\ last.created = {}
        /\ store = last.pre

C15_Witness ==
    /\ last.cmd = "migrate"
    /\ last.src = "staging"
    /\ last.env = "staging"
    /\ last.exit = 1

\* C16: a point-in-time restore given both a bookmark and a timestamp, or
\* neither, exits with 1 without asking and without issuing a command; the
\* time-travel command is issued only when exactly one of them was given.
C16_ExactlyOneSelector ==
    last.cmd = "timetravel" =>
        /\ (last.bookmark = last.timestamp) =>
              /\ last.exit = 1
              /\ ~last.asked
              /\ last.log = <<>>
        /\ Issued({"timetravel"}) # {} => last.bookmark # last.timestamp

C16_Witness ==
    /\ last.cmd = "timetravel"
    /\ last.bookmark
    /\ last.timestamp
    /\ last.exit = 1
    /\ last.log = <<>>

\* the filenames backup-<env>-<timestamp>[-suffix].sql[.gz]
MatchesPattern(n) == n.head = "backup" /\ n.ts < NoStamp /\ n.ext = "sql"

\* C17: list_backups returns only files whose name matches
\* backup-<env>-<timestamp>[-suffix].sql[.gz], and cleanup deletes no file
\* of another name.
C17_OnlyPatternNamesEnumerated ==
    /\ \A i \in DOMAIN list_backups(store, "") :
          MatchesPattern(list_backups(store, "")[i])
    /\ last.cmd = "cleanup" => \A n \in Deleted : MatchesPattern(n)

\* C18: after a successful restore_database the target holds as many
\* subscribers as the header of the restored artifact recorded when
\* create_backup took it, whatever the target held before.
C18_RoundTripKeepsCount ==
    (last.rs.ran /\ last.rs.ret) => db[last.env].count = last.rs.recorded

\* the commands that change a database or dump it: export, drop, reload
Mutating(c) == c.c \in {"export", "drop", "reload"}

\* C19: no two invocations have a dump, table drop or reload in flight
\* against the same environment at the same time.
C19_OneMutatingCommandPerEnvironment ==
    \A p, q \in Procs :
        (p # q /\ Mutating(procs[p].flying) /\ Mutating(procs[q].flying))
            => procs[p].flying.env # procs[q].flying.env

\* C20: whatever the count query returns, a backup gets a number as
\* subscriber count (0 when the CLI path and, for a remote environment,
\* the HTTP path fail) and goes on to issue the export command; the HTTP
\* query is issued only for a remote environment, after the CLI query, and
\* only when that failed or could not be parsed.
C20_CountNeverFatal ==
    last.cmd = "backup" =>
        /\ last.bk.initial_count \in 0..MaxRows
        /\ Issued({"export"}) # {}
        /\ Issued({"http_count"}) # {} =>
              /\ IsRemote(last.env)
              /\ last.bk.cli # "ok"
              /\ \A i \in Issued({"http_count"}) :
                    \E j \in Issued({"count"}) : j < i
        /\ (last.bk.cli # "ok" /\ (~IsRemote(last.env) \/ last.bk.http = "fail"))
              => last.bk.initial_count = 0

C20_Witness ==
    /\ last.cmd = "backup"
    /\ IsRemote(last.env)
    /\ last.bk.cli = "fail"
    /\ last.bk.http = "fail"
    /\ last.bk.initial_count = 0
    /\ Issued({"http_count"}) # {}
    /\ Issued({"export"}) # {}
    /\ last.bk.ret # NoName

\* C21: no gateway command or HTTP query is issued for an environment
\* without a database_id; when an id is missing a command exits with 1
\* before its first step: it issues nothing, writes no file and changes
\* neither the backup directory nor a database.
C21_NoCommandWithoutDatabaseId ==
    /\ \A i \in DOMAIN last.log : config[last.log[i].env]
    /\ (nops > 0 /\ \E e \in Envs : ~config[e]) =>
          /\ last.exit = 1
          /\ last.log = <<>>
          /\ last.created = {}
          /\ ~last.bk.ran /\ ~last.rs.ran /\ ~last.cl.ran
          /\ store = last.pre
          /\ temps = {}
          /\ db = InitDb

C21_Witness ==
    /\ last.cmd = "config_error"
    /\ config["local"]
    /\ ~config["staging"]
    /\ last.exit = 1
    /\ nops = MaxOps

\* C22: a backup, restore, migrate, verify or point-in-time restore command
\* whose operation ran exits with 0 when the operation reported success and
\* with another code when it reported failure.
C22_ExitCodeFollowsResult ==
    /\ (last.cmd = "backup" /\ last.bk.ran) =>
          (last.exit = 0 <=> last.bk.ret # NoName)
    /\ (last.cmd = "restore" /\ last.rs.ran) => (last.exit = 0 <=> last.rs.ret)
    /\ (last.cmd = "migrate" /\ last.bk.ran) =>
          (last.exit = 0 <=>
              (last.bk.ret # NoName /\ last.rs.ran /\ last.rs.ret))
    /\ (last.cmd = "verify") =>
          (last.exit = 0 <=> verify_backup(last.pre, last.file))
    /\ (last.cmd = "timetravel" /\ Issued({"timetravel"}) # {}) =>
          (last.exit = 0 <=> last.ttOk)

C22_Witness ==
    /\ last.cmd = "migrate"
    /\ last.bk.ret # NoName
    /\ last.rs.ran
    /\ last.rs.reloadIssued
    /\ ~last.rs.ret
    /\ last.exit = 1

\* C23: every artifact create_backup returns holds the content the export
\* command dumped, between the migrations section and the completion
\* marker; a backup whose dump was not obtained returns no filename.
C23_ReturnedArtifactHoldsDump ==
    (last.cmd \in {"backup", "migrate"} /\ last.bk.ran
        /\ last.bk.ret # NoName) =>
        /\ last.bk.ret \in DOMAIN store
        /\ store[last.bk.ret].dump

\* C24 as stated: after the sniff test passed restore_database returns
\* False only when the reload command failed.
C24_OnlyReloadFatal ==
    (last.rs.ran /\ last.rs.sniff /\ ~last.rs.ret) =>
        (last.rs.reloadIssued /\ ~last.rs.reloadOk)

\* C24 amended: after the sniff test passed restore_database returns False
\* only when preparing the reload file or the reload command failed; a
\* failed safety backup, table enumeration or drop and a row count of zero
\* after the reload leave the result True.
C24_OnlyPrepareOrReloadFatal ==
    /\ (last.rs.ran /\ last.rs.sniff /\ ~last.rs.ret) =>
          \/ last.rs.prepTried /\ ~last.rs.prepared
          \/ last.rs.reloadIssued /\ ~last.rs.reloadOk
    /\ (last.rs.ran /\ last.rs.sniff /\ last.rs.prepared /\ last.rs.reloadOk)
          => (last.rs.ret /\ last.exit = 0)

C24_Witness ==
    /\ last.cmd = "restore"
    /\ last.rs.safety
    /\ last.rs.safetyRet = NoName
    /\ ~last.rs.enumOk
    /\ last.rs.reloadOk
    /\ db[last.env].count = 0
    /\ Issued({"count"}) # {}
    /\ last.rs.ret
    /\ last.exit = 0

\* the commands of the kinds given that the last command issued against
\* its target environment
OnTarget(kinds) == {i \in Issued(kinds) : last.log[i].env = last.env}

\* C25: restore_database issues no command when the sniff test fails; the
\* commands of the safety backup come before the table enumeration and the
\* first drop, and there are none when no safety backup was asked for;
\* every drop comes before the reload; a count query that is not the safety
\* backup's comes after the reload, and only when the reload succeeded.
C25_RestoreStepOrder ==
    last.rs.ran =>
        /\ ~last.rs.sniff => OnTarget({"count", "http_count", "migrations",
                                       "export", "enum", "drop", "reload"}) = {}
        /\ ~last.rs.safety => OnTarget({"migrations", "export"}) = {}
        /\ \A i \in OnTarget({"migrations", "export"}) :
              \A j \in OnTarget({"enum", "drop", "reload"}) : i < j
        /\ \A i \in OnTarget({"enum"}) : \A j \in OnTarget({"drop"}) : i < j
        /\ \A i \in OnTarget({"drop"}) : \A j \in OnTarget({"reload"}) : i < j
        /\ \A i \in OnTarget({"count", "http_count"}) :
              \/ \E j \in OnTarget({"migrations"}) : i < j
              \/ /\ last.rs.reloadOk
                 /\ \A j \in OnTarget({"reload"}) : j < i

C25_Witness ==
    /\ last.cmd = "restore"
    /\ last.rs.safety
    /\ OnTarget({"export"}) # {}
    /\ Cardinality(OnTarget({"drop"})) = 2
    /\ last.rs.reloadOk
    /\ Cardinality(OnTarget({"count"})) = 2

\* C26: after a cleanup that ran to its end with no unlink failing, no
\* artifact left is older than the cutoff and no environment holds more
\* than max-per-env artifacts.
C26_RetentionPolicyHolds ==
    (last.cmd = "cleanup" /\ ~last.dryRun /\ ~last.cl.unlinkError
        /\ ~last.cl.crashed) =>
        /\ \A n \in DOMAIN store : store[n].mtime >= last.at - last.cl.days
        /\ \A e \in Envs :
              Cardinality({n \in DOMAIN store : n.env = e}) <= last.cl.cap

C26_Witness ==
    /\ last.cmd = "cleanup"
    /\ ~last.dryRun
    /\ ~last.cl.unlinkError
    /\ ~last.cl.crashed
    /\ last.cl.aged # {}
    /\ last.cl.trimmed # {}
    /\ store # EmptyStore

\* C27: a command issues the migration-history query, the export, the table
\* enumeration, the reload and the point-in-time restore at most once per
\* environment and the drop of a table at most once; the HTTP count query
\* directly follows a CLI count query of the same environment, and a count
\* query is never directly followed by a count query of the same path.
C27_NoStepReissued ==
    /\ \A i, j \in Issued({"migrations", "export", "enum", "drop", "reload",
                           "timetravel"}) :
          last.log[i] = last.log[j] => i = j
    /\ \A i \in Issued({"http_count"}) :
          /\ i > 1
          /\ last.log[i - 1] = Cmd("count", last.log[i].env, "")
    /\ \A i \in Issued({"count", "http_count"}) :
          i < Len(last.log) => last.log[i + 1] # last.log[i]

C27_Witness ==
    /\ last.rs.enumOk
    /\ last.rs.tablesAtReload # {}
    /\ last.rs.reloadIssued
    /\ ~last.rs.reloadOk
    /\ Cardinality(Issued({"drop"})) = 2
    /\ Cardinality(Issued({"reload"})) = 1
    /\ last.exit = 1

\* C28: a backup that returns a filename has added exactly that file to the
\* backup directory, under a name no file had before, and left every other
\* file as it was; so has the safety backup of a restore, which in
\* particular leaves the artifact being restored alone.
C28_BackupAddsOneNewArtifact ==
    /\ (last.cmd = "backup" /\ last.bk.ret # NoName) =>
          /\ last.bk.ret \notin DOMAIN last.pre
          /\ DOMAIN store = DOMAIN last.pre \cup {last.bk.ret}
          /\ \A n \in DOMAIN last.pre : store[n] = last.pre[n]
    /\ (last.cmd = "restore" /\ last.rs.safetyRet # NoName) =>
          /\ last.rs.safetyRet \notin DOMAIN last.pre
          /\ last.rs.safetyRet # last.file
          /\ DOMAIN store = DOMAIN last.pre \cup {last.rs.safetyRet}
          /\ \A n \in DOMAIN last.pre : store[n] = last.pre[n]

\* C29: when create_backup returns no filename, whichever step failed, no
\* file exists under the filename it had chosen for the artifact.
C29_FailedBackupLeavesNoFile ==
    (last.cmd \in {"backup", "migrate"} /\ last.bk.ran
        /\ last.bk.ret = NoName) =>
        last.bk.name \notin DOMAIN store

\* C30: cleanup --dry-run leaves the backup directory as it is, and the
\* files it lists are exactly those the cleanup that follows it with the
\* same retention-days and max-per-env values at the same clock reading
\* deletes.
C30_DryRunListsWhatCleanupDeletes ==
    /\ (last.cmd = "cleanup" /\ last.dryRun) => store = last.pre
    /\ (/\ last.cmd = "cleanup" /\ ~last.dryRun /\ ~last.cl.unlinkError
        /\ prev.cmd = "cleanup" /\ prev.dryRun
        /\ last.cl.days = prev.cl.days
        /\ last.cl.cap = prev.cl.cap
        /\ last.at = prev.at) =>
          prev.cl.would = Deleted

=============================================================================
